---- MODULE Spec2Model ----
(***************************************************************************)
(* Model of estimate_coding_time.py: the git-log parser                    *)
(* (get_git_commit_data), the session grouper                              *)
(* (group_commits_into_sessions), the per-session estimator                *)
(* (estimate_session_time) and the report written by main.                 *)
(*                                                                         *)
(* Strings are sequences of one-character strings, so that strip, split,   *)
(* the header regular expression, isdigit and int are computed the way     *)
(* Python computes them.  Minutes and hours are exact rationals            *)
(* [num, den] in lowest terms (Python uses binary floats; the rounding of  *)
(* floats is not modelled).  A datetime is the number of seconds of local  *)
(* wall-clock time.                                                        *)
(***************************************************************************)
EXTENDS Integers, Sequences, FiniteSets, TLC

VARIABLES
    pc,               \* position of main
    tz,               \* the local time zone of the process (environment)
    output,           \* the lines printed to standard output, in order
    lines,            \* get_git_commit_data: result.stdout.strip().split('\n')
    li,               \* get_git_commit_data: number of lines already scanned
    commits,          \* get_git_commit_data: commits (then main's commits)
    current_commit,   \* get_git_commit_data: index into commits, 0 for None
    gi,               \* group_commits_into_sessions: commits already visited
    sessions,         \* group_commits_into_sessions: sessions (then main's)
    current_session,  \* group_commits_into_sessions: current_session
    si,               \* main: sessions already reported
    session_time,     \* main: session_time of the last reported session
    total_minutes,    \* main: total_minutes
    hours,            \* main: hours
    called            \* the functions main has called so far

vars == <<pc, tz, output, lines, li, commits, current_commit, gi, sessions,
          current_session, si, session_time, total_minutes, hours, called>>

parserVars == <<lines, li, commits, current_commit>>
grouperVars == <<gi, sessions, current_session>>
reportVars == <<si, session_time, total_minutes, hours>>

-----------------------------------------------------------------------------
(* Bounds and program constants *)

\* the longest git log output explored, in lines
MaxLines == 3

MAX_GAP_MINUTES == 90

PRE_COMMIT_LINE_FACTOR == 1

-----------------------------------------------------------------------------
(* Exact rational arithmetic *)

Abs(n) == IF n < 0 THEN -n ELSE n

RECURSIVE GCD(_, _)
GCD(a, b) == IF b = 0 THEN a ELSE GCD(b, a % b)

\* n/d in lowest terms, d > 0
Rat(n, d) ==
    LET g == GCD(Abs(n), d)
    IN  [num |-> n \div g, den |-> d \div g]

RatAdd(a, b) == Rat(a.num * b.den + b.num * a.den, a.den * b.den)

RatMulInt(a, k) == Rat(a.num * k, a.den)

RatDivInt(a, k) == Rat(a.num, a.den * k)

RatLeq(a, b) == a.num * b.den <= b.num * a.den

Zero == Rat(0, 1)

TIME_PER_LINE_MINUTES == Rat(2, 100)

-----------------------------------------------------------------------------
(* Python string operations on sequences of characters *)

Whitespace == {" ", "\t", "\n"}

DigitChars == <<"0", "1", "2", "3", "4", "5", "6", "7", "8", "9">>

Digits == {DigitChars[i] : i \in 1..10}

HexDigits == Digits \cup {"a", "b", "c", "d", "e", "f"}

\* the length of the longest prefix of s made of characters of S
PrefixLen(s, S) ==
    CHOOSE n \in 0..Len(s) :
        /\ \A i \in 1..n : s[i] \in S
        /\ (n = Len(s) \/ s[n + 1] \notin S)

\* the length of the longest suffix of s made of characters of S
SuffixLen(s, S) ==
    CHOOSE n \in 0..Len(s) :
        /\ \A i \in (Len(s) - n + 1)..Len(s) : s[i] \in S
        /\ (n = Len(s) \/ s[Len(s) - n] \notin S)

\* str.strip()
strip(s) ==
    LET a == PrefixLen(s, Whitespace)
        t == SubSeq(s, a + 1, Len(s))
    IN  SubSeq(t, 1, Len(t) - SuffixLen(t, Whitespace))

\* str.split(sep) for a one-character separator
RECURSIVE split(_, _)
split(s, sep) ==
    IF \A i \in 1..Len(s) : s[i] # sep
    THEN <<s>>
    ELSE LET n == PrefixLen(s, {s[i] : i \in 1..Len(s)} \ {sep})
         IN  <<SubSeq(s, 1, n)>> \o split(SubSeq(s, n + 2, Len(s)), sep)

\* sep.join(ss)
RECURSIVE join(_, _)
join(ss, sep) ==
    IF ss = <<>> THEN <<>>
    ELSE IF Len(ss) = 1 THEN ss[1]
    ELSE ss[1] \o <<sep>> \o join(Tail(ss), sep)

\* str.isdigit()
isdigit(s) == s # <<>> /\ \A i \in 1..Len(s) : s[i] \in Digits

\* int(s) for a string of digits
RECURSIVE int(_)
int(s) ==
    IF s = <<>> THEN 0
    ELSE 10 * int(SubSeq(s, 1, Len(s) - 1))
         + ((CHOOSE k \in 1..10 : DigitChars[k] = s[Len(s)]) - 1)

\* time_hash_pattern.match(line) for ^(\d+)\s+([0-9a-f]+)$ :
\* <<>> for None, else match.groups()
time_hash_match(line) ==
    LET d    == PrefixLen(line, Digits)
        r1   == SubSeq(line, d + 1, Len(line))
        w    == PrefixLen(r1, Whitespace)
        rest == SubSeq(r1, w + 1, Len(r1))
    IN  IF /\ d >= 1
           /\ w >= 1
           /\ rest # <<>>
           /\ \A i \in 1..Len(rest) : rest[i] \in HexDigits
        THEN <<SubSeq(line, 1, d), rest>>
        ELSE <<>>

-----------------------------------------------------------------------------
(* The environment: git's output and the local time zone *)

\* header lines "%ct %H" that git may print (epoch seconds, abbreviated hash)
HeaderLines ==
    { <<"0", " ", "a">>,
      <<"1", "0", "0", "0", " ", "b">>,
      <<"5", "4", "0", "0", " ", "c">>,
      <<"1", "0", "8", "0", "1", " ", "d">> }

\* --numstat lines: both counts numeric, the binary marker, one count only,
\* and the blank line git prints between a header and its numstat block
OtherLines ==
    { <<"3", "\t", "2", "\t", "x">>,
      <<"-", "\t", "-", "\t", "x">>,
      <<"5", "\t", "-", "\t", "x">>,
      <<>> }

LogLines == HeaderLines \cup OtherLines

\* the outputs of git log explored: up to MaxLines lines joined by newlines
LogOutputs ==
    { join(ls, "\n") :
        ls \in UNION { [1..n -> LogLines] : n \in 0..MaxLines } }

TimeZones == {"fixed", "dst"}

\* seconds that local wall-clock time is ahead of the epoch clock: in the
\* "dst" zone clocks are an hour ahead until they fall back at epoch 1000
utcoffset(epoch) == IF tz = "dst" /\ epoch < 1000 THEN 3600 ELSE 0

\* datetime.fromtimestamp(epoch): naive local time
fromtimestamp(epoch) == epoch + utcoffset(epoch)

-----------------------------------------------------------------------------
(* get_git_commit_data *)

NewCommit(groups) ==
    [timestamp |-> fromtimestamp(int(groups[1])),
     hash |-> groups[2],
     lines_changed |-> 0]

\* variant: only the added count is summed
LineDeltaAddedOnly(diff_parts) ==
    IF isdigit(diff_parts[1]) THEN int(diff_parts[1]) ELSE 0

\* added + removed of one numstat line.  The except ValueError branch is
\* not reachable for ASCII digits and is left out.
LineDelta(diff_parts) ==
    LET added_str   == diff_parts[1]
        removed_str == diff_parts[2]
        added       == IF isdigit(added_str) THEN int(added_str) ELSE 0
        removed     == IF isdigit(removed_str) THEN int(removed_str) ELSE 0
    IN  added + removed

\* the two fixed lines main prints around the extraction
Gathering == <<"Gathering commit data...">>

NoData == <<"No commit data found.">>

Init ==
    /\ pc = "start"
    /\ tz \in TimeZones
    /\ output = <<>>
    /\ lines = <<>>
    /\ li = 0
    /\ commits = <<>>
    /\ current_commit = 0
    /\ gi = 0
    /\ sessions = <<>>
    /\ current_session = <<>>
    /\ si = 0
    /\ session_time = Zero
    /\ total_minutes = Zero
    /\ hours = Zero
    /\ called = {}

PrintGathering ==
    /\ pc = "start"
    /\ output' = Append(output, Gathering)
    /\ called' = called \cup {"get_git_commit_data"}
    /\ pc' = "run_git"
    /\ UNCHANGED <<tz, parserVars, grouperVars, reportVars>>

\* variant: the failure is reported on standard output before main ends
RunGitFailReported ==
    /\ pc = "run_git"
    /\ output' = Append(output, <<"Error">>)
    /\ pc' = "raised"
    /\ UNCHANGED <<tz, parserVars, grouperVars, reportVars, called>>

\* subprocess.run(..., check=True) raises CalledProcessError, which nothing
\* catches: main ends there
RunGitFail ==
    /\ pc = "run_git"
    /\ pc' = "raised"
    /\ UNCHANGED <<tz, output, parserVars, grouperVars, reportVars, called>>

RunGitOk ==
    /\ pc = "run_git"
    /\ \E stdout \in LogOutputs :
          lines' = split(strip(stdout), "\n")
    /\ li' = 0
    /\ commits' = <<>>
    /\ current_commit' = 0
    /\ pc' = "parse"
    /\ UNCHANGED <<tz, output, grouperVars, reportVars, called>>

ParseCommitLine ==
    /\ pc = "parse"
    /\ li < Len(lines)
    /\ LET match == time_hash_match(lines[li + 1])
       IN  /\ match # <<>>
           /\ commits' = Append(commits, NewCommit(match))
           /\ current_commit' = Len(commits) + 1
    /\ li' = li + 1
    /\ UNCHANGED <<pc, tz, output, lines, grouperVars, reportVars, called>>

ParseDiffLine ==
    /\ pc = "parse"
    /\ li < Len(lines)
    /\ time_hash_match(lines[li + 1]) = <<>>
    /\ LET diff_parts == split(strip(lines[li + 1]), "\t")
       IN  commits' =
               IF Len(diff_parts) = 3 /\ current_commit # 0
               THEN [commits EXCEPT ![current_commit].lines_changed =
                                        @ + LineDelta(diff_parts)]
               ELSE commits
    /\ li' = li + 1
    /\ UNCHANGED <<pc, tz, output, lines, current_commit, grouperVars,
                   reportVars, called>>

ParseReturn ==
    /\ pc = "parse"
    /\ li = Len(lines)
    /\ pc' = "check"
    /\ UNCHANGED <<tz, output, parserVars, grouperVars, reportVars, called>>

-----------------------------------------------------------------------------
(* group_commits_into_sessions *)

\* variant: the comparison is strict
SameSessionStrict(time_diff) ==
    ~RatLeq(Rat(MAX_GAP_MINUTES, 1), time_diff)

\* time_diff <= MAX_GAP_MINUTES
SameSession(time_diff) == RatLeq(time_diff, Rat(MAX_GAP_MINUTES, 1))

\* (a - b).total_seconds() / 60.0
MinutesBetween(a, b) == Rat(a - b, 60)

\* variant: the session in progress is not appended after the scan
DropLast(ss, cur) == ss

\* "Append the last session"
AppendLast(ss, cur) == IF cur # <<>> THEN Append(ss, cur) ELSE ss

GroupFirst ==
    /\ pc = "group"
    /\ gi = 0
    /\ gi < Len(commits)
    /\ current_session' = Append(current_session, commits[1])
    /\ gi' = 1
    /\ UNCHANGED <<pc, tz, output, parserVars, sessions, reportVars, called>>

GroupSame ==
    /\ pc = "group"
    /\ gi > 0
    /\ gi < Len(commits)
    /\ LET commit      == commits[gi + 1]
           prev_commit == commits[gi]
           time_diff   == MinutesBetween(commit.timestamp,
                                         prev_commit.timestamp)
       IN  /\ SameSession(time_diff)
           /\ current_session' = Append(current_session, commit)
    /\ gi' = gi + 1
    /\ UNCHANGED <<pc, tz, output, parserVars, sessions, reportVars, called>>

GroupNew ==
    /\ pc = "group"
    /\ gi > 0
    /\ gi < Len(commits)
    /\ LET commit      == commits[gi + 1]
           prev_commit == commits[gi]
           time_diff   == MinutesBetween(commit.timestamp,
                                         prev_commit.timestamp)
       IN  /\ ~SameSession(time_diff)
           /\ sessions' = Append(sessions, current_session)
           /\ current_session' = <<commit>>
    /\ gi' = gi + 1
    /\ UNCHANGED <<pc, tz, output, parserVars, reportVars, called>>

GroupReturn ==
    /\ pc = "group"
    /\ gi = Len(commits)
    /\ sessions' = AppendLast(sessions, current_session)
    /\ pc' = "grouped"
    /\ UNCHANGED <<tz, output, parserVars, gi, current_session, reportVars,
                   called>>

-----------------------------------------------------------------------------
(* estimate_session_time *)

\* variant: the buffer is taken from the last commit of the session
estimate_session_time_last(session) ==
    IF session = <<>> THEN Zero
    ELSE RatAdd(MinutesBetween(session[Len(session)].timestamp,
                               session[1].timestamp),
                RatMulInt(RatMulInt(TIME_PER_LINE_MINUTES,
                                    session[Len(session)].lines_changed),
                          PRE_COMMIT_LINE_FACTOR))

estimate_session_time(session) ==
    IF session = <<>> THEN Zero
    ELSE LET start_time == session[1].timestamp
             end_time   == session[Len(session)].timestamp
             direct_time_minutes == MinutesBetween(end_time, start_time)
             first_commit_lines  == session[1].lines_changed
             pre_commit_estimate ==
                 RatMulInt(RatMulInt(TIME_PER_LINE_MINUTES,
                                     first_commit_lines),
                           PRE_COMMIT_LINE_FACTOR)
         IN  RatAdd(direct_time_minutes, pre_commit_estimate)

-----------------------------------------------------------------------------
(* main *)

\* format(x, ".1f"): the number of tenths nearest to x, ties to even
Format1f(x) ==
    LET n == 10 * x.num
        q == n \div x.den
        r == n % x.den
    IN  IF 2 * r < x.den THEN q
        ELSE IF 2 * r > x.den THEN q + 1
        ELSE IF q % 2 = 0 THEN q ELSE q + 1

\* variant: the total is overwritten instead of accumulated
OverwriteMinutes(total, t) == t

\* total_minutes += session_time
AddMinutes(total, t) == RatAdd(total, t)

\* total_minutes / 60.0
HoursOf(total) == RatDivInt(total, 60)

\* variant: the early return is missing
NoCommitDataFallThrough ==
    /\ pc = "check"
    /\ commits = <<>>
    /\ output' = output \o <<NoData, <<"Found", Len(commits)>>>>
    /\ called' = called \cup {"group_commits_into_sessions"}
    /\ gi' = 0
    /\ sessions' = <<>>
    /\ current_session' = <<>>
    /\ pc' = "group"
    /\ UNCHANGED <<tz, parserVars, reportVars>>

NoCommitData ==
    /\ pc = "check"
    /\ commits = <<>>
    /\ output' = Append(output, NoData)
    /\ pc' = "done"
    /\ UNCHANGED <<tz, parserVars, grouperVars, reportVars, called>>

PrintFound ==
    /\ pc = "check"
    /\ commits # <<>>
    /\ output' = Append(output, <<"Found", Len(commits)>>)
    /\ called' = called \cup {"group_commits_into_sessions"}
    /\ gi' = 0
    /\ sessions' = <<>>
    /\ current_session' = <<>>
    /\ pc' = "group"
    /\ UNCHANGED <<tz, parserVars, reportVars>>

PrintGrouped ==
    /\ pc = "grouped"
    /\ output' = Append(output, <<"Grouped", Len(sessions)>>)
    /\ total_minutes' = Zero
    /\ si' = 0
    /\ pc' = "loop"
    /\ UNCHANGED <<tz, parserVars, grouperVars, session_time, hours, called>>

ReportSession ==
    /\ pc = "loop"
    /\ si < Len(sessions)
    /\ LET session == sessions[si + 1]
           t       == estimate_session_time(session)
       IN  /\ session_time' = t
           /\ total_minutes' = AddMinutes(total_minutes, t)
           /\ output' = Append(output,
                  <<"Session", si + 1, Len(session), Format1f(t)>>)
    /\ called' = called \cup {"estimate_session_time"}
    /\ si' = si + 1
    /\ UNCHANGED <<pc, tz, parserVars, grouperVars, hours>>

PrintSummary ==
    /\ pc = "loop"
    /\ si = Len(sessions)
    /\ output' = Append(output, <<"--- Summary ---">>)
    /\ pc' = "summary"
    /\ UNCHANGED <<tz, parserVars, grouperVars, reportVars, called>>

PrintTotal ==
    /\ pc = "summary"
    /\ hours' = HoursOf(total_minutes)
    /\ output' = Append(output, <<"Total", Format1f(HoursOf(total_minutes))>>)
    /\ pc' = "done"
    /\ UNCHANGED <<tz, parserVars, grouperVars, si, session_time,
                   total_minutes, called>>

Next ==
    \/ PrintGathering
    \/ RunGitFail
    \/ RunGitOk
    \/ ParseCommitLine
    \/ ParseDiffLine
    \/ ParseReturn
    \/ NoCommitData
    \/ PrintFound
    \/ GroupFirst
    \/ GroupSame
    \/ GroupNew
    \/ GroupReturn
    \/ PrintGrouped
    \/ ReportSession
    \/ PrintSummary
    \/ PrintTotal

Spec == Init /\ [][Next]_vars

-----------------------------------------------------------------------------
(* Vocabulary of the properties *)

\* main has returned from group_commits_into_sessions
Grouped == pc \in {"grouped", "loop", "summary", "done"}

\* main has returned from get_git_commit_data
Extracted == pc \in {"check", "group", "grouped", "loop", "summary", "done"}

RECURSIVE Concat(_)
Concat(ss) == IF ss = <<>> THEN <<>> ELSE Head(ss) \o Concat(Tail(ss))

ThresholdSeconds == MAX_GAP_MINUTES * 60

IsHeader(line) == time_hash_match(line) # <<>>

\* the number of header lines among the first n lines: the record that a
\* numstat line at position n belongs to (0: before the first header)
RECURSIVE OwnerOf(_)
OwnerOf(n) ==
    IF n = 0 THEN 0
    ELSE OwnerOf(n - 1) + (IF IsHeader(lines[n]) THEN 1 ELSE 0)

\* the position of the k-th header line
HeaderAt(k) == CHOOSE i \in 1..Len(lines) : IsHeader(lines[i]) /\ OwnerOf(i) = k

NumericCount(field) == IF isdigit(field) THEN int(field) ELSE 0

\* what one three-field line adds: "each" sums the counts that are numeric,
\* "both" adds added+removed only when both are numeric
Contribution(parts, mode) ==
    IF mode = "both"
    THEN IF isdigit(parts[1]) /\ isdigit(parts[2])
         THEN int(parts[1]) + int(parts[2]) ELSE 0
    ELSE NumericCount(parts[1]) + NumericCount(parts[2])

\* the sum of the contributions of the three-field lines among the first n
\* lines that lie between the k-th header and the next one
RECURSIVE ExpectedLines(_, _, _)
ExpectedLines(k, n, mode) ==
    IF n = 0 THEN 0
    ELSE LET parts == split(strip(lines[n]), "\t")
         IN  ExpectedLines(k, n - 1, mode)
             + (IF ~IsHeader(lines[n]) /\ OwnerOf(n) = k /\ Len(parts) = 3
                THEN Contribution(parts, mode) ELSE 0)

RECURSIVE SumEstimates(_, _)
SumEstimates(ss, n) ==
    IF n = 0 THEN Zero
    ELSE RatAdd(SumEstimates(ss, n - 1), estimate_session_time(ss[n]))

\* the whole report, from the progress line through the total line
FullReport(out) ==
    /\ Len(out) >= 5
    /\ out[1] = Gathering
    /\ out[2][1] = "Found"
    /\ out[3][1] = "Grouped"
    /\ \A i \in 4..(Len(out) - 2) : out[i][1] = "Session"
    /\ out[Len(out) - 1] = <<"--- Summary ---">>
    /\ out[Len(out)][1] = "Total"

-----------------------------------------------------------------------------
(* Properties *)

\* C1: the sessions returned by group_commits_into_sessions partition the
\* commits: concatenated in order they are the input sequence, and no
\* session is empty.  While the scan runs, the closed sessions followed by
\* the current one are the commits visited so far.
C1_Partition ==
    /\ (pc = "group" =>
            Concat(sessions) \o current_session = SubSeq(commits, 1, gi))
    /\ (Grouped /\ commits # <<>> =>
            /\ Concat(sessions) = commits
            /\ \A k \in 1..Len(sessions) : sessions[k] # <<>>)

C1_Witness ==
    /\ pc = "grouped"
    /\ Len(sessions) >= 2
    /\ \E k \in 1..Len(sessions) : Len(sessions[k]) >= 2

C3_NonNegative ==
    Grouped =>
        \A k \in 1..Len(sessions) :
            RatLeq(Zero, estimate_session_time(sessions[k]))

\* C4: the commits returned by get_git_commit_data are sorted ascending by
\* timestamp.
C4_Sorted ==
    Extracted =>
        \A i \in 1..(Len(commits) - 1) :
            commits[i].timestamp <= commits[i + 1].timestamp

\* C5: a three-field numstat line after a header adds added+removed to the
\* current commit only when both fields are integers, and nothing when
\* either is not.
C5_BothOrZero ==
    pc = "parse" \/ Extracted =>
        \A k \in 1..Len(commits) :
            commits[k].lines_changed = ExpectedLines(k, li, "both")

\* C6 as stated: when main has ended, either the full report or nothing at
\* all has been written.
C6_AllOrNothing ==
    pc \in {"done", "raised"} => output = <<>> \/ FullReport(output)

\* C6 amended: when the history query fails, only the progress line
\* "Gathering commit data..." has been written; a run that ends normally
\* has written the full report, or the progress line and "No commit data
\* found.".
C6_NoResultOnFailure ==
    /\ (pc = "raised" => output = <<Gathering>>)
    /\ (pc = "done" => FullReport(output) \/ output = <<Gathering, NoData>>)

C6_Witness == pc = "raised" /\ Len(output) = 1

\* C7: with an empty commit sequence main prints "No commit data found."
\* and ends: it never groups or estimates and prints no report line.
C7_EmptyHistory ==
    pc \notin {"start", "run_git", "parse", "raised"} /\ commits = <<>> =>
        /\ pc \in {"check", "done"}
        /\ called = {"get_git_commit_data"}
        /\ (pc = "check" => output = <<Gathering>>)
        /\ (pc = "done" => output = <<Gathering, NoData>>)

C7_Witness == pc = "done" /\ commits = <<>> /\ lines = << <<>> >>

\* C8: total_minutes is the sum of estimate_session_time over the sessions
\* reported so far, each once, and hours is that total divided by 60.
C8_Total ==
    /\ (pc \in {"loop", "summary"} =>
            total_minutes = SumEstimates(sessions, si))
    /\ (pc = "summary" => si = Len(sessions))
    /\ (pc = "done" /\ commits # <<>> =>
            /\ total_minutes = SumEstimates(sessions, Len(sessions))
            /\ hours.num * 60 * total_minutes.den
                   = total_minutes.num * hours.den)

C8_Witness ==
    /\ pc = "done"
    /\ Len(sessions) >= 2
    /\ estimate_session_time(sessions[1]) # Zero
    /\ total_minutes # Zero
    /\ hours # total_minutes

\* C9: for a session of one commit with L lines changed the estimate is
\* L * TIME_PER_LINE_MINUTES * PRE_COMMIT_LINE_FACTOR; for every session
\* the estimate is the span plus the buffer of the first commit's lines.
C9_Buffer ==
    pc \in {"loop", "summary", "done"} /\ si > 0 =>
        LET s      == sessions[si]
            buffer == RatMulInt(TIME_PER_LINE_MINUTES,
                          s[1].lines_changed * PRE_COMMIT_LINE_FACTOR)
        IN  /\ Len(s) = 1 => session_time = buffer
            /\ session_time =
                   RatAdd(Rat(s[Len(s)].timestamp - s[1].timestamp, 60),
                          buffer)

C9_Witness ==
    /\ pc = "loop"
    /\ si > 0
    /\ Len(sessions[si]) = 1
    /\ sessions[si][1].lines_changed > 0
    /\ session_time # Zero

====
